---------------------------- MODULE Spec2Model ----------------------------
(***************************************************************************)
(* Model of the Corsair Vengeance K90 HID driver (src/hid-corsair-k90.c).  *)
(*                                                                         *)
(* The state is that of one HID device of the keyboard (the keyboard has   *)
(* one per USB interface; the driver keeps no state outside the device it  *)
(* is called with): its interface number, the position of probe/remove,    *)
(* the drvdata slot, the kzalloc'ed struct k90_drvdata it may point to,    *)
(* the sysfs attribute group, and the attribute write that is blocked      *)
(* inside usb_control_msg.  Every entry point of the driver is an          *)
(* action.  An entry point that blocks in usb_control_msg while other      *)
(* entry points can run is two actions: up to the submission of the        *)
(* control transfer, and from its completion to the return.                *)
(*                                                                         *)
(* Text (sysfs buffers) is a sequence of one-character strings.            *)
(***************************************************************************)
EXTENDS Integers, Sequences, FiniteSets, TLC

(***************************************************************************)
(* Bounds of the model.                                                    *)
(***************************************************************************)
\* The status reply's bytes 4 and 7 range over 0..MaxStatusByte and two
\* bytes with the top bit set.
MaxStatusByte == 3
\* Numbers written to the integer attributes range over -1..MaxWriteValue.
MaxWriteValue == 4

(***************************************************************************)
(* Program constants.                                                      *)
(***************************************************************************)
K90_USAGE_MACRO_RECORD_START == 246
K90_USAGE_MACRO_RECORD_STOP == 247
K90_USAGE_PROFILE == 241
K90_USAGE_M1 == 241
K90_USAGE_M2 == 242
K90_USAGE_M3 == 243
K90_USAGE_META_OFF == 244
K90_USAGE_META_ON == 245
K90_USAGE_LIGHT == 250
K90_USAGE_LIGHT_OFF == 250
K90_USAGE_LIGHT_DIM == 251
K90_USAGE_LIGHT_MEDIUM == 252
K90_USAGE_LIGHT_BRIGHT == 253

K90_REQUEST_BRIGHTNESS == 49
K90_REQUEST_MACRO_MODE == 2
K90_REQUEST_STATUS == 4
K90_REQUEST_PROFILE == 20

K90_MACRO_MODE_SW == 48
K90_MACRO_MODE_HW == 1
K90_MACRO_LED_ON == 32
K90_MACRO_LED_OFF == 64

\* <linux/hid.h>: the usage id is the low 16 bits of hid_usage.hid.
HID_USAGE_MODULUS == 65536
\* errno values returned as -E...
EINVAL == 22
ENOSYS == 38
ENOMEM == 12
ENODEV == 19
EPIPE == 32
ETIMEDOUT == 110
\* sizeof data in k90_init_special_functions
STATUS_LEN == 8

K90_GKEY_COUNT == 18
K90_USAGE_SPECIAL_MIN == 240
K90_USAGE_SPECIAL_MAX == 255
\* <linux/input.h>
EV_KEY == 1
KEY_F13 == 183
BTN_MISC == 256

(***************************************************************************)
(* Interfaces of the keyboard, by bInterfaceNumber.  Interface 0 is the    *)
(* one k90_init_special_functions gives a k90_drvdata.                     *)
(***************************************************************************)
Ifaces == {0, 1}

(***************************************************************************)
(* Text helpers.                                                           *)
(***************************************************************************)
DigitChars == <<"0", "1", "2", "3", "4", "5", "6", "7", "8", "9">>

IsDigit(c) == \E d \in 1..10 : DigitChars[d] = c

DigitValue(c) == (CHOOSE d \in 1..10 : DigitChars[d] = c) - 1

NL == <<"\n">>

\* snprintf("%d"): the decimal digits of n >= 0, most significant first.
RECURSIVE FormatNat(_)
FormatNat(n) ==
    IF n < 10 THEN <<DigitChars[n + 1]>>
    ELSE FormatNat(n \div 10) \o <<DigitChars[(n % 10) + 1]>>

\* snprintf("%d"): a minus sign for negative numbers.
FormatInt(n) == IF n < 0 THEN <<"-">> \o FormatNat(0 - n) ELSE FormatNat(n)

\* strncmp(buf, tok, Len(tok)) == 0 on a NUL-terminated buf: buf's first
\* Len(tok) characters are tok (a shorter buf differs at its NUL).
strncmp_eq(buf, tok) ==
    /\ Len(buf) >= Len(tok)
    /\ SubSeq(buf, 1, Len(tok)) = tok

\* _parse_integer: the value of the leading digits of s and how many there
\* are; over is set once the value no longer fits an int.
RECURSIVE parse_integer(_, _, _, _)
parse_integer(s, k, acc, over) ==
    IF k > Len(s) \/ ~IsDigit(s[k])
    THEN [n |-> k - 1, val |-> acc, over |-> over]
    ELSE LET d == DigitValue(s[k]) IN
         IF over \/ acc > 214748364 \/ (acc = 214748364 /\ d > 7)
         THEN parse_integer(s, k + 1, 0, TRUE)
         ELSE parse_integer(s, k + 1, acc * 10 + d, FALSE)

\* kstrtoint(buf, 10, &val): an optional sign, at least one digit, an
\* optional single newline, then the end of the string; -ERANGE (here any
\* nonzero err) when the number does not fit an int.
kstrtoint(buf) ==
    LET neg  == Len(buf) >= 1 /\ buf[1] = "-"
        plus == Len(buf) >= 1 /\ buf[1] = "+"
        from == IF neg \/ plus THEN 2 ELSE 1
        p    == parse_integer(buf, from, 0, FALSE)
        end  == from + p.n
        rest == IF end <= Len(buf) /\ buf[end] = "\n" THEN end + 1 ELSE end
    IN  IF p.n = 0 \/ rest <= Len(buf) THEN [err |-> 0 - EINVAL, val |-> 0]
        ELSE IF p.over THEN [err |-> 0 - 34, val |-> 0]
        ELSE [err |-> 0, val |-> IF neg THEN 0 - p.val ELSE p.val]


(***************************************************************************)
(* Inputs.                                                                 *)
(***************************************************************************)
\* Values of the elements 4 and 7 of char data[8] after the status query.
\* A reply byte with the top bit set (0xC8) is 200 where char is unsigned
\* and -56 where it is signed.
StatusBytes == (0..MaxStatusByte) \cup {200, 0 - 56}

\* A status reply: brightness b at offset 4, profile p at offset 7, the
\* reserved byte at 1-based position k (none for k = 0) nonzero.
Reply(b, p, k) ==
    [n \in 1..STATUS_LEN |->
        IF n = 5 THEN b ELSE IF n = 8 THEN p ELSE IF n = k THEN 85 ELSE 0]

Replies == {Reply(b, p, k) : b \in StatusBytes, p \in StatusBytes,
                             k \in {0, 1, 2, 3, 4, 6, 7}}

ZeroData == [n \in 1..STATUS_LEN |-> 0]

\* Returns of usb_control_msg for the zero-length OUT requests: 0 or -errno.
XferErrors == {0 - ETIMEDOUT, 0 - EPIPE}
XferRets == {0} \cup XferErrors
\* Returns of the status query: bytes received (all 8, or a short reply of
\* none), or -errno.
StatusRets == {STATUS_LEN, 0} \cup XferErrors

\* Errors of hid_parse, hid_hw_start and sysfs_create_group.
CoreErrors == {0 - ENOMEM, 0 - ENODEV}

\* Texts written to the integer attributes.
NumberTexts ==
    UNION {{FormatInt(n), FormatInt(n) \o NL} : n \in (0 - 1)..MaxWriteValue}
    \cup {<<"+", "2">>, <<"0", "3">>,
          <<>>, NL, <<"x">>, <<"2", " ">>, <<" ", "2">>, <<"2", "x">>,
          <<"0", "x", "2">>, <<"2", "\n", "\n">>,
          <<"4", "2", "9", "4", "9", "6", "7", "2", "9", "8">>}

\* kstrtoint on the texts of the model, tabulated.
ParsedNumber == [buf \in NumberTexts |-> kstrtoint(buf)]

\* Texts written to the token attributes.
TokenTexts ==
    {<<"S", "W">>, <<"S", "W", "\n">>, <<"H", "W">>, <<"H", "W", "\n">>,
     <<"O", "N">>, <<"O", "N", "\n">>, <<"O", "F", "F">>,
     <<"O", "F", "F", "\n">>,
     <<"S", "W", "A", "P">>, <<"H", "W", "x">>, <<"O", "N", "E">>,
     <<"O", "F", "F", "S">>,
     <<>>, NL, <<"S">>, <<"O", "F">>, <<"s", "w">>, <<" ", "S", "W">>,
     <<"b", "o", "g", "u", "s">>, <<"1">>}

\* hid_usage.hid of inbound reports: usage page in the high 16 bits (7:
\* keyboard, 12: consumer), usage id in the low 16.
UsageIds == {4, 208, 233} \cup (240..255)
Hids == {7 * HID_USAGE_MODULUS + u : u \in UsageIds}
        \cup {12 * HID_USAGE_MODULUS + u : u \in {4, 243, 246}}

(***************************************************************************)
(* State.                                                                  *)
(***************************************************************************)
VARIABLES
    bInterfaceNumber,  \* of the USB interface the HID device sits on
    pc,       \* position of k90_probe / k90_remove
    slot,     \* hid_get_drvdata(dev), "NULL" or "PTR"
    heap,     \* the k90_drvdata allocation PTR refers to
    drv,      \* the contents of that struct k90_drvdata
    attrs,    \* k90_attr_group is registered in sysfs
    ret,      \* local ret of k90_init_special_functions
    data,     \* local char data[8] of the same function
    pending,  \* the attribute write inside usb_control_msg
    result,   \* what the entry point that returned in the last step returned
    xfer,     \* the control transfer the last step submitted
    gkey_codes,  \* the array k90_gkey_map, as loaded (module parameter)
    usage,    \* the struct hid_usage k90_input_mapping was last called with
    kbd       \* the keyboard at the other end, where a behaviour follows it

vars == <<bInterfaceNumber, pc, slot, heap, drv, attrs, ret, data, pending,
          result, xfer, gkey_codes, usage, kbd>>

\* kzalloc: every field zero.
ZeroState ==
    [brightness |-> 0, current_profile |-> 0, macro_mode |-> 0,
     macro_record |-> 0, meta_locked |-> 0]

NoPending == [attr |-> "none", value |-> 0, count |-> 0]

NoResult == [op |-> "none", status |-> "none", ret |-> 0, buf |-> <<>>]
Returned(op, r, b) == [op |-> op, status |-> "returned", ret |-> r, buf |-> b]
\* The entry point did not return: it dereferenced a NULL drvdata.
Oops(op) == [op |-> op, status |-> "oops", ret |-> 0, buf |-> <<>>]

NoXfer == [dir |-> "none", request |-> 0, value |-> 0, len |-> 0]
\* usb_control_msg(usbdev, usb_sndctrlpipe(usbdev, 0), request,
\*   USB_DIR_OUT|USB_TYPE_VENDOR|USB_RECIP_DEVICE, value, 0, NULL, 0, ...)
OutXfer(request, value) ==
    [dir |-> "out", request |-> request, value |-> value, len |-> 0]
\* usb_control_msg(usbdev, usb_rcvctrlpipe(usbdev, 0), K90_REQUEST_STATUS,
\*   USB_DIR_IN|USB_TYPE_VENDOR|USB_RECIP_DEVICE, 0, 0, data, 8, ...)
StatusXfer ==
    [dir |-> "in", request |-> K90_REQUEST_STATUS, value |-> 0,
     len |-> STATUS_LEN]

\* The initialiser of k90_gkey_map: KEY_F13..KEY_F24, BTN_MISC+0..BTN_MISC+5.
k90_gkey_map ==
    [n \in 1..K90_GKEY_COUNT |->
        IF n <= 12 THEN KEY_F13 + (n - 1) ELSE BTN_MISC + (n - 13)]

\* A hid_usage no mapping has written: type and code zero.
Unmapped(hid) == [hid |-> hid, type |-> 0, code |-> 0]

\* The keyboard: the brightness and profile it is set to, the reports it
\* has sent that k90_event has not handled yet, and whether it has carried
\* out the control transfer the driver is waiting for.  Under Spec the
\* keyboard is not followed (reports and the results of transfers are
\* arbitrary) and kbd stays as it starts.
Kbd(b, p) == [brightness |-> b, profile |-> p, reports |-> <<>>,
              applied |-> FALSE]

Init ==
    /\ kbd = Kbd(0, 1)
    /\ gkey_codes = k90_gkey_map
    /\ usage = Unmapped(0)
    /\ bInterfaceNumber \in Ifaces
    /\ pc = "unbound"
    /\ slot = "NULL"
    /\ heap = "none"
    /\ drv = ZeroState
    /\ attrs = FALSE
    /\ ret = 0
    /\ data = ZeroData
    /\ pending = NoPending
    /\ result = NoResult
    /\ xfer = NoXfer

\* Reports are delivered to k90_event between hid_hw_start and hid_hw_stop.
HwStarted == pc # "unbound"

\* The interface has a Device State: its slot points to a live allocation.
HasState == slot = "PTR" /\ heap = "live"

(***************************************************************************)
(* Attach: k90_probe and k90_init_special_functions.                       *)
(***************************************************************************)
\* k90_probe up to the call of k90_init_special_functions: hid_parse and
\* hid_hw_start, either of which may fail with e.
k90_probe(e) ==
    /\ pc = "unbound"
    /\ IF e # 0
       THEN /\ result' = Returned("probe", e, <<>>)
            /\ pc' = pc
       ELSE /\ result' = NoResult
            /\ pc' = "started"
    /\ xfer' = NoXfer
    /\ UNCHANGED <<bInterfaceNumber, gkey_codes, usage, kbd>>
    /\ UNCHANGED <<slot, heap, drv, attrs, ret, data, pending>>

\* An attach that gives every interface a drvdata.
init_alloc_any(ok) ==
    /\ pc = "started"
    /\ IF ok
       THEN /\ heap' = "live"
            /\ drv' = ZeroState
            /\ pc' = "query"
            /\ result' = NoResult
            /\ slot' = slot
       ELSE /\ pc' = "unbound"
            /\ result' = Returned("probe", 0 - ENOMEM, <<>>)
            /\ UNCHANGED <<slot, heap, drv>>
    /\ xfer' = NoXfer
    /\ UNCHANGED <<bInterfaceNumber, gkey_codes, usage, kbd>>
    /\ UNCHANGED <<attrs, ret, data, pending>>

\* Lines 277-282 and 304-308: the interface test and kzalloc.  A failed
\* kzalloc returns -ENOMEM to k90_probe, which stops the hardware.
init_alloc(ok) ==
    /\ pc = "started"
    /\ IF bInterfaceNumber # 0
       THEN /\ slot' = "NULL"
            /\ pc' = "bound"
            /\ result' = Returned("probe", 0, <<>>)
            /\ UNCHANGED <<heap, drv>>
       ELSE IF ok
       THEN /\ heap' = "live"
            /\ drv' = ZeroState
            /\ pc' = "query"
            /\ result' = NoResult
            /\ slot' = slot
       ELSE /\ pc' = "unbound"
            /\ result' = Returned("probe", 0 - ENOMEM, <<>>)
            /\ UNCHANGED <<slot, heap, drv>>
    /\ xfer' = NoXfer
    /\ UNCHANGED <<bInterfaceNumber, gkey_codes, usage, kbd>>
    /\ UNCHANGED <<attrs, ret, data, pending>>

\* A seeding that also takes macro_mode from the reply's byte 3.
SeedState_mode(st, r, d) ==
    IF r < 0
    THEN [st EXCEPT !.brightness = 0, !.current_profile = 1]
    ELSE [st EXCEPT !.brightness = d[5], !.current_profile = d[8],
                    !.macro_mode = d[4]]

\* A seeding that reads the reply one byte early.
SeedState_off(st, r, d) ==
    IF r < 0
    THEN [st EXCEPT !.brightness = 0, !.current_profile = 1]
    ELSE [st EXCEPT !.brightness = d[4], !.current_profile = d[7]]

\* A seeding without the defaults of a failed query.
SeedState_nodefault(st, r, d) ==
    IF r < 0 THEN st
    ELSE [st EXCEPT !.brightness = d[5], !.current_profile = d[8]]

\* Lines 289-295: the Device State seeded from the status query that
\* returned r and left d in data.
SeedState(st, r, d) ==
    IF r < 0
    THEN [st EXCEPT !.brightness = 0, !.current_profile = 1]
    ELSE [st EXCEPT !.brightness = d[5], !.current_profile = d[8]]

\* Lines 284-295: the status query and the seeding of the new drvdata.  A
\* failed query leaves data unwritten (and unread); a short reply leaves
\* the bytes it did not bring uninitialised, so data is any reply again.
init_status(r, reply) ==
    /\ pc = "query"
    /\ xfer' = StatusXfer
    /\ ret' = r
    /\ data' = IF r < 0 THEN ZeroData ELSE reply
    /\ drv' = SeedState(drv, r, data')
    /\ pc' = "seeded"
    /\ result' = NoResult
    /\ UNCHANGED <<bInterfaceNumber, gkey_codes, usage, kbd>>
    /\ UNCHANGED <<slot, heap, attrs, pending>>

\* Line 296: hid_set_drvdata(dev, drvdata).  data is not read again.
init_publish ==
    /\ pc = "seeded"
    /\ slot' = "PTR"
    /\ data' = ZeroData
    /\ pc' = "published"
    /\ result' = NoResult
    /\ xfer' = NoXfer
    /\ UNCHANGED <<bInterfaceNumber, gkey_codes, usage, kbd>>
    /\ UNCHANGED <<heap, drv, attrs, ret, pending>>

\* Lines 298-299 and 308: sysfs_create_group returns e.  On success
\* k90_init_special_functions and k90_probe return 0; on failure the
\* drvdata is freed while the slot still points to it.
init_sysfs(e) ==
    /\ pc = "published"
    /\ ret' = e
    /\ IF e = 0
       THEN /\ attrs' = TRUE
            /\ pc' = "bound"
            /\ result' = Returned("probe", 0, <<>>)
            /\ UNCHANGED <<heap, drv>>
       ELSE /\ heap' = "freed"
            /\ drv' = ZeroState
            /\ pc' = "unwind"
            /\ result' = NoResult
            /\ attrs' = attrs
    /\ xfer' = NoXfer
    /\ UNCHANGED <<bInterfaceNumber, gkey_codes, usage, kbd>>
    /\ UNCHANGED <<slot, data, pending>>

\* Lines 300-301 and 335-337: the slot is cleared, the error returned and
\* k90_probe stops the hardware.
init_unwind ==
    /\ pc = "unwind"
    /\ slot' = "NULL"
    /\ heap' = "none"
    /\ pc' = "unbound"
    /\ result' = Returned("probe", ret, <<>>)
    /\ ret' = 0
    /\ xfer' = NoXfer
    /\ UNCHANGED <<bInterfaceNumber, gkey_codes, usage, kbd>>
    /\ UNCHANGED <<drv, attrs, data, pending>>

(***************************************************************************)
(* Detach: k90_remove and k90_cleanup_special_functions.                   *)
(***************************************************************************)
\* Lines 313-316: with a drvdata, sysfs_remove_group, which waits for the
\* attribute operations in progress; without one, straight to hid_hw_stop.
remove_group ==
    /\ pc = "bound"
    /\ pending = NoPending
    /\ IF slot # "NULL"
       THEN /\ attrs' = FALSE
            /\ pc' = "rm_group"
            /\ result' = NoResult
            /\ ret' = ret
       ELSE /\ pc' = "unbound"
            /\ result' = Returned("remove", 0, <<>>)
            /\ ret' = 0
            /\ attrs' = attrs
    /\ xfer' = NoXfer
    /\ UNCHANGED <<bInterfaceNumber, gkey_codes, usage, kbd>>
    /\ UNCHANGED <<slot, heap, drv, data, pending>>

\* Line 317: kfree(drvdata); the slot keeps pointing to it.
remove_free ==
    /\ pc = "rm_group"
    /\ heap' = "freed"
    /\ drv' = ZeroState
    /\ pc' = "rm_freed"
    /\ result' = NoResult
    /\ xfer' = NoXfer
    /\ UNCHANGED <<bInterfaceNumber, gkey_codes, usage, kbd>>
    /\ UNCHANGED <<slot, attrs, ret, data, pending>>

\* Line 346: hid_hw_stop, and the return to the driver core, which clears
\* the drvdata of the device it unbinds.
remove_stop ==
    /\ pc = "rm_freed"
    /\ slot' = "NULL"
    /\ heap' = "none"
    /\ pc' = "unbound"
    /\ ret' = 0
    /\ result' = Returned("remove", 0, <<>>)
    /\ xfer' = NoXfer
    /\ UNCHANGED <<bInterfaceNumber, gkey_codes, usage, kbd>>
    /\ UNCHANGED <<drv, attrs, data, pending>>

(***************************************************************************)
(* Inbound reports: k90_event.                                             *)
(***************************************************************************)
\* A switch whose meta-on case sets meta_locked.
EventState_metaon(st, u) ==
    CASE u = K90_USAGE_MACRO_RECORD_START -> [st EXCEPT !.macro_record = 1]
      [] u = K90_USAGE_MACRO_RECORD_STOP -> [st EXCEPT !.macro_record = 0]
      [] u \in {K90_USAGE_M1, K90_USAGE_M2, K90_USAGE_M3} ->
            [st EXCEPT !.current_profile = u - K90_USAGE_PROFILE + 1]
      [] u = K90_USAGE_META_OFF -> [st EXCEPT !.meta_locked = 0]
      [] u = K90_USAGE_META_ON -> [st EXCEPT !.meta_locked = 1]
      [] u \in {K90_USAGE_LIGHT_OFF, K90_USAGE_LIGHT_DIM,
                K90_USAGE_LIGHT_MEDIUM, K90_USAGE_LIGHT_BRIGHT} ->
            [st EXCEPT !.brightness = u - K90_USAGE_LIGHT]
      [] OTHER -> st

\* A switch whose macro-record-stop case also resets macro_mode.
EventState_mode(st, u) ==
    CASE u = K90_USAGE_MACRO_RECORD_START -> [st EXCEPT !.macro_record = 1]
      [] u = K90_USAGE_MACRO_RECORD_STOP ->
            [st EXCEPT !.macro_record = 0, !.macro_mode = 0]
      [] u \in {K90_USAGE_M1, K90_USAGE_M2, K90_USAGE_M3} ->
            [st EXCEPT !.current_profile = u - K90_USAGE_PROFILE + 1]
      [] u = K90_USAGE_META_OFF -> [st EXCEPT !.meta_locked = 0]
      [] u = K90_USAGE_META_ON -> [st EXCEPT !.meta_locked = 0]
      [] u \in {K90_USAGE_LIGHT_OFF, K90_USAGE_LIGHT_DIM,
                K90_USAGE_LIGHT_MEDIUM, K90_USAGE_LIGHT_BRIGHT} ->
            [st EXCEPT !.brightness = u - K90_USAGE_LIGHT]
      [] OTHER -> st

\* A switch whose profile case forgets the + 1.
EventState_prof0(st, u) ==
    CASE u = K90_USAGE_MACRO_RECORD_START -> [st EXCEPT !.macro_record = 1]
      [] u = K90_USAGE_MACRO_RECORD_STOP -> [st EXCEPT !.macro_record = 0]
      [] u \in {K90_USAGE_M1, K90_USAGE_M2, K90_USAGE_M3} ->
            [st EXCEPT !.current_profile = u - K90_USAGE_PROFILE]
      [] u = K90_USAGE_META_OFF -> [st EXCEPT !.meta_locked = 0]
      [] u = K90_USAGE_META_ON -> [st EXCEPT !.meta_locked = 0]
      [] u \in {K90_USAGE_LIGHT_OFF, K90_USAGE_LIGHT_DIM,
                K90_USAGE_LIGHT_MEDIUM, K90_USAGE_LIGHT_BRIGHT} ->
            [st EXCEPT !.brightness = u - K90_USAGE_LIGHT]
      [] OTHER -> st

\* Lines 357-383: the switch on the usage id u.
EventState(st, u) ==
    CASE u = K90_USAGE_MACRO_RECORD_START -> [st EXCEPT !.macro_record = 1]
      [] u = K90_USAGE_MACRO_RECORD_STOP -> [st EXCEPT !.macro_record = 0]
      [] u \in {K90_USAGE_M1, K90_USAGE_M2, K90_USAGE_M3} ->
            [st EXCEPT !.current_profile = u - K90_USAGE_PROFILE + 1]
      [] u = K90_USAGE_META_OFF -> [st EXCEPT !.meta_locked = 0]
      [] u = K90_USAGE_META_ON -> [st EXCEPT !.meta_locked = 0]
      [] u \in {K90_USAGE_LIGHT_OFF, K90_USAGE_LIGHT_DIM,
                K90_USAGE_LIGHT_MEDIUM, K90_USAGE_LIGHT_BRIGHT} ->
            [st EXCEPT !.brightness = u - K90_USAGE_LIGHT]
      [] OTHER -> st

\* The usage ids whose case stores through drvdata.
EventStores(u) ==
    u \in {K90_USAGE_MACRO_RECORD_START, K90_USAGE_MACRO_RECORD_STOP,
           K90_USAGE_M1, K90_USAGE_M2, K90_USAGE_M3,
           K90_USAGE_META_OFF, K90_USAGE_META_ON,
           K90_USAGE_LIGHT_OFF, K90_USAGE_LIGHT_DIM,
           K90_USAGE_LIGHT_MEDIUM, K90_USAGE_LIGHT_BRIGHT}

\* k90_event for a report of usage hid (the value of the usage is not
\* read).  A NULL drvdata returns at once; a store through a pointer to a
\* freed drvdata lands in memory that is no longer a Device State.
k90_event(hid) ==
    /\ HwStarted
    /\ result' = Returned("event", 0, <<>>)
    /\ LET u == hid % HID_USAGE_MODULUS IN
       IF slot = "NULL" THEN UNCHANGED <<drv, heap>>
       ELSE IF heap = "live"
       THEN /\ drv' = EventState(drv, u)
            /\ heap' = heap
       ELSE /\ heap' = IF EventStores(u) THEN "corrupt" ELSE heap
            /\ drv' = drv
    /\ xfer' = NoXfer
    /\ UNCHANGED <<bInterfaceNumber, gkey_codes, usage>>
    /\ UNCHANGED <<pc, slot, attrs, ret, data, pending>>

(***************************************************************************)
(* Attribute reads: k90_show_*.                                            *)
(***************************************************************************)
\* What a load of field f through drvdata may yield: the field, or anything
\* once the allocation is freed.
ReadField(f) ==
    IF heap = "live" THEN {drv[f]} ELSE StatusBytes

\* snprintf(buf, PAGE_SIZE, "%d\n", v)
ShowInt(v) == FormatInt(v) \o NL
\* snprintf(buf, PAGE_SIZE, "%s\n", v ? "HW" : "SW")
ShowMacroMode(v) == (IF v # 0 THEN <<"H", "W">> ELSE <<"S", "W">>) \o NL
\* snprintf(buf, PAGE_SIZE, "%s\n", v ? "ON" : "OFF")
ShowMacroRecord(v) ==
    (IF v # 0 THEN <<"O", "N">> ELSE <<"O", "F", "F">>) \o NL

\* The return of a show function: -ENOSYS without drvdata, else the text and
\* its length.
ShowResult(op, text) ==
    IF slot = "NULL" THEN Returned(op, 0 - ENOSYS, <<>>)
    ELSE Returned(op, Len(text), text)

k90_show_brightness ==
    /\ attrs
    /\ \E v \in ReadField("brightness") :
          result' = ShowResult("show_brightness", ShowInt(v))
    /\ xfer' = NoXfer
    /\ UNCHANGED <<bInterfaceNumber, gkey_codes, usage, kbd>>
    /\ UNCHANGED <<pc, slot, heap, drv, attrs, ret, data, pending>>

k90_show_macro_mode ==
    /\ attrs
    /\ \E v \in ReadField("macro_mode") :
          result' = ShowResult("show_macro_mode", ShowMacroMode(v))
    /\ xfer' = NoXfer
    /\ UNCHANGED <<bInterfaceNumber, gkey_codes, usage, kbd>>
    /\ UNCHANGED <<pc, slot, heap, drv, attrs, ret, data, pending>>

k90_show_macro_record ==
    /\ attrs
    /\ \E v \in ReadField("macro_record") :
          result' = ShowResult("show_macro_record", ShowMacroRecord(v))
    /\ xfer' = NoXfer
    /\ UNCHANGED <<bInterfaceNumber, gkey_codes, usage, kbd>>
    /\ UNCHANGED <<pc, slot, heap, drv, attrs, ret, data, pending>>

k90_show_current_profile ==
    /\ attrs
    /\ \E v \in ReadField("current_profile") :
          result' = ShowResult("show_current_profile", ShowInt(v))
    /\ xfer' = NoXfer
    /\ UNCHANGED <<bInterfaceNumber, gkey_codes, usage, kbd>>
    /\ UNCHANGED <<pc, slot, heap, drv, attrs, ret, data, pending>>

(***************************************************************************)
(* Attribute writes: k90_store_*.  One write is inside usb_control_msg at  *)
(* a time.                                                                 *)
(***************************************************************************)
\* A range test that lets 4 through.
BrightnessInRange_le4(v) == ~(v < 0 \/ v > 4)

\* Lines 121-123.
BrightnessInRange(v) == ~(v < 0 \/ v > 3)
\* Lines 238-240.
ProfileInRange(v) == ~(v < 1 \/ v > 3)

\* A token test that compares the first character only.
MacroModeValue_len1(buf) ==
    IF strncmp_eq(buf, <<"S">>) THEN K90_MACRO_MODE_SW
    ELSE IF strncmp_eq(buf, <<"H">>) THEN K90_MACRO_MODE_HW
    ELSE 0

\* Lines 155-163: the request value for buf, 0 for -EINVAL.
MacroModeValue(buf) ==
    IF strncmp_eq(buf, <<"S", "W">>) THEN K90_MACRO_MODE_SW
    ELSE IF strncmp_eq(buf, <<"H", "W">>) THEN K90_MACRO_MODE_HW
    ELSE 0

\* Lines 195-203: the request value for buf, 0 for -EINVAL.
MacroRecordValue(buf) ==
    IF strncmp_eq(buf, <<"O", "N">>) THEN K90_MACRO_LED_ON
    ELSE IF strncmp_eq(buf, <<"O", "F", "F">>) THEN K90_MACRO_LED_OFF
    ELSE 0

\* A store function up to its usb_control_msg: -EINVAL when the input is
\* not valid, else the request is submitted and the write waits for it.
StoreSubmit(op, attr, valid, request, value, count) ==
    /\ attrs
    /\ pending = NoPending
    /\ \/ /\ result' = Returned(op, 0 - EINVAL, <<>>)
          /\ ~valid
          /\ xfer' = NoXfer
          /\ pending' = pending
       \/ /\ result' = NoResult
          /\ valid
          /\ xfer' = OutXfer(request, value)
          /\ pending' = [attr |-> attr, value |-> value, count |-> count]
    /\ UNCHANGED <<bInterfaceNumber, gkey_codes, usage, kbd>>
    /\ UNCHANGED <<pc, slot, heap, drv, attrs, ret, data>>

\* A store that updates the cache whatever usb_control_msg returned.
StoreState_eager(st, f, v, r) == [st EXCEPT ![f] = v]

\* A store function that returns 0 on success.
StoreReturn_zero(r, count) == IF 0 # r THEN r ELSE 0

\* Lines 125-133 (and 165-173, 205-213, 242-250): the Device State after
\* usb_control_msg returned r for a store of v to field f.
StoreState(st, f, v, r) ==
    IF 0 # r THEN st ELSE [st EXCEPT ![f] = v]

\* The same lines: what the store function returns.
StoreReturn(r, count) ==
    IF 0 # r THEN r ELSE count

\* A store function from the return of usb_control_msg, r, on: the error is
\* returned, or v is stored to field f through drvdata (which is not tested
\* for NULL) and count returned.
StoreDone(op, attr, f, v, r) ==
    /\ pending.attr = attr
    /\ pending' = NoPending
    /\ xfer' = NoXfer
    /\ IF 0 # r \/ HasState
       THEN /\ drv' = StoreState(drv, f, v, r)
            /\ result' = Returned(op, StoreReturn(r, pending.count), <<>>)
            /\ heap' = heap
       ELSE IF slot = "NULL"
       THEN /\ result' = Oops(op)
            /\ UNCHANGED <<drv, heap>>
       ELSE /\ heap' = "corrupt"
            /\ result' = Returned(op, pending.count, <<>>)
            /\ drv' = drv
    /\ UNCHANGED <<bInterfaceNumber, gkey_codes, usage>>
    /\ UNCHANGED <<pc, slot, attrs, ret, data>>

k90_store_brightness(buf) ==
    LET p == ParsedNumber[buf] IN
    StoreSubmit("store_brightness", "brightness",
                p.err = 0 /\ BrightnessInRange(p.val),
                K90_REQUEST_BRIGHTNESS, p.val, Len(buf))

k90_store_brightness_done(r) ==
    StoreDone("store_brightness", "brightness",
              "brightness", pending.value, r)

k90_store_macro_mode(buf) ==
    StoreSubmit("store_macro_mode", "macro_mode",
                MacroModeValue(buf) # 0,
                K90_REQUEST_MACRO_MODE, MacroModeValue(buf), Len(buf))

k90_store_macro_mode_done(r) ==
    StoreDone("store_macro_mode", "macro_mode", "macro_mode",
              IF pending.value = K90_MACRO_MODE_HW THEN 1 ELSE 0, r)

k90_store_macro_record(buf) ==
    StoreSubmit("store_macro_record", "macro_record",
                MacroRecordValue(buf) # 0,
                K90_REQUEST_MACRO_MODE, MacroRecordValue(buf), Len(buf))

k90_store_macro_record_done(r) ==
    StoreDone("store_macro_record", "macro_record", "macro_record",
              IF pending.value = K90_MACRO_LED_ON THEN 1 ELSE 0, r)

k90_store_current_profile(buf) ==
    LET p == ParsedNumber[buf] IN
    StoreSubmit("store_current_profile", "current_profile",
                p.err = 0 /\ ProfileInRange(p.val),
                K90_REQUEST_PROFILE, p.val, Len(buf))

k90_store_current_profile_done(r) ==
    StoreDone("store_current_profile", "current_profile",
              "current_profile", pending.value, r)

(***************************************************************************)
(* The driver bound to the device.                                         *)
(***************************************************************************)
Lifecycle ==
    \/ \E e \in {0} \cup CoreErrors : k90_probe(e)
    \/ \E ok \in BOOLEAN : init_alloc(ok)
    \/ \E r \in StatusRets, reply \in Replies : init_status(r, reply)
    \/ init_publish
    \/ \E e \in {0} \cup CoreErrors : init_sysfs(e)
    \/ init_unwind
    \/ remove_group
    \/ remove_free
    \/ remove_stop

Reads ==
    \/ k90_show_brightness
    \/ k90_show_macro_mode
    \/ k90_show_macro_record
    \/ k90_show_current_profile

Writes ==
    \/ \E buf \in NumberTexts : k90_store_brightness(buf)
    \/ \E r \in XferRets : k90_store_brightness_done(r) /\ UNCHANGED kbd
    \/ \E buf \in TokenTexts : k90_store_macro_mode(buf)
    \/ \E r \in XferRets : k90_store_macro_mode_done(r) /\ UNCHANGED kbd
    \/ \E buf \in TokenTexts : k90_store_macro_record(buf)
    \/ \E r \in XferRets : k90_store_macro_record_done(r) /\ UNCHANGED kbd
    \/ \E buf \in NumberTexts : k90_store_current_profile(buf)
    \/ \E r \in XferRets :
          k90_store_current_profile_done(r) /\ UNCHANGED kbd

\* Reports of any usage, at any time.
Reports == \E hid \in Hids : k90_event(hid) /\ UNCHANGED kbd

Next == Lifecycle \/ Reads \/ Writes \/ Reports

Spec == Init /\ [][Next]_vars

(***************************************************************************)
(* The attribute functions and k90_event applied to a bound device whose   *)
(* attribute files exist, with a Device State (interface 0) and without    *)
(* one (interface 1): the functions' behaviour on every drvdata they can   *)
(* be handed, whatever sysfs registration lets through.                    *)
(***************************************************************************)
InitHandlers ==
    /\ kbd = Kbd(0, 1)
    /\ gkey_codes = k90_gkey_map
    /\ usage = Unmapped(0)
    /\ bInterfaceNumber \in Ifaces
    /\ pc = "bound"
    /\ slot = IF bInterfaceNumber = 0 THEN "PTR" ELSE "NULL"
    /\ heap = IF bInterfaceNumber = 0 THEN "live" ELSE "none"
    /\ \E b \in 0..MaxStatusByte, p \in 0..MaxStatusByte :
          drv = IF bInterfaceNumber = 0
                THEN [ZeroState EXCEPT !.brightness = b,
                                       !.current_profile = p]
                ELSE ZeroState
    /\ attrs = TRUE
    /\ ret = 0
    /\ data = ZeroData
    /\ pending = NoPending
    /\ result = NoResult
    /\ xfer = NoXfer

NextHandlers == Reads \/ Writes \/ Reports

SpecHandlers == InitHandlers /\ [][NextHandlers]_vars

(***************************************************************************)
(* Input mapping: k90_usage_to_gkey and k90_input_mapping, which the HID   *)
(* core calls for every usage of the device's report descriptor.           *)
(***************************************************************************)
\* The largest usage id of the contiguous range the mapping is applied to.
MaxUsage == 257

\* Usage ids handed to k90_input_mapping: the low range, ids that agree
\* with a G-key in their low byte only, and the largest id.
UsageCodes == (0..MaxUsage) \cup {464, 488, 65535}
MapHids == {page * HID_USAGE_MODULUS + u : page \in {7, 12}, u \in UsageCodes}

\* Contents of k90_gkey_map when the module is loaded: the initialiser, or
\* with leading entries replaced through the gkey_codes parameter.
GkeyTables ==
    {k90_gkey_map,
     [n \in 1..K90_GKEY_COUNT |->
        IF n = 1 THEN 30 ELSE IF n = 2 THEN 31 ELSE k90_gkey_map[n]]}

\* A classifier whose first range ends one usage late.
k90_usage_to_gkey_e0(u) ==
    IF u >= 208 /\ u <= 224 THEN u - 208 + 1
    ELSE IF u >= 232 /\ u <= 233 THEN u - 232 + 17
    ELSE 0

\* Lines 30-40.
k90_usage_to_gkey(u) ==
    IF u >= 208 /\ u <= 223 THEN u - 208 + 1
    ELSE IF u >= 232 /\ u <= 233 THEN u - 232 + 17
    ELSE 0

\* k90_gkey_map[idx]: the entry, or whatever lies outside the array.
GkeyCode(idx) ==
    IF idx \in 0..(K90_GKEY_COUNT - 1) THEN {gkey_codes[idx + 1]}
    ELSE {0, 65535}

\* hid_map_usage_clear(input, usage, bit, max, type, code)
MappedUsage(hid, type, code) == [hid |-> hid, type |-> type, code |-> code]

\* An input mapping that indexes the table with gkey instead of gkey - 1.
k90_input_mapping_idx(hid) ==
    /\ LET u == hid % HID_USAGE_MODULUS
           gkey == k90_usage_to_gkey(u)
       IN  IF gkey # 0
           THEN /\ \E code \in GkeyCode(gkey) :
                      usage' = MappedUsage(hid, EV_KEY, code)
                /\ result' = Returned("input_mapping", 1, <<>>)
           ELSE IF u >= K90_USAGE_SPECIAL_MIN /\ u <= K90_USAGE_SPECIAL_MAX
           THEN /\ usage' = Unmapped(hid)
                /\ result' = Returned("input_mapping", 0 - 1, <<>>)
           ELSE /\ usage' = Unmapped(hid)
                /\ result' = Returned("input_mapping", 0, <<>>)
    /\ xfer' = NoXfer
    /\ UNCHANGED <<bInterfaceNumber, gkey_codes, pc, slot, heap, drv, attrs,
                   ret, data, pending, kbd>>

\* Lines 388-402: k90_input_mapping for the usage hid.
k90_input_mapping(hid) ==
    /\ LET u == hid % HID_USAGE_MODULUS
           gkey == k90_usage_to_gkey(u)
       IN  IF gkey # 0
           THEN /\ \E code \in GkeyCode(gkey - 1) :
                      usage' = MappedUsage(hid, EV_KEY, code)
                /\ result' = Returned("input_mapping", 1, <<>>)
           ELSE IF u >= K90_USAGE_SPECIAL_MIN /\ u <= K90_USAGE_SPECIAL_MAX
           THEN /\ usage' = Unmapped(hid)
                /\ result' = Returned("input_mapping", 0 - 1, <<>>)
           ELSE /\ usage' = Unmapped(hid)
                /\ result' = Returned("input_mapping", 0, <<>>)
    /\ xfer' = NoXfer
    /\ UNCHANGED <<bInterfaceNumber, gkey_codes, pc, slot, heap, drv, attrs,
                   ret, data, pending, kbd>>

\* The HID core configuring the usages of a device it starts, with the
\* table as loaded.
InitMapping ==
    /\ kbd = Kbd(0, 1)
    /\ gkey_codes \in GkeyTables
    /\ usage = Unmapped(0)
    /\ bInterfaceNumber \in Ifaces
    /\ pc = "unbound"
    /\ slot = "NULL"
    /\ heap = "none"
    /\ drv = ZeroState
    /\ attrs = FALSE
    /\ ret = 0
    /\ data = ZeroData
    /\ pending = NoPending
    /\ result = NoResult
    /\ xfer = NoXfer

NextMapping == \E hid \in MapHids : k90_input_mapping(hid)

SpecMapping == InitMapping /\ [][NextMapping]_vars

(***************************************************************************)
(* The driver and the keyboard together: interface 0 attached, writes to   *)
(* the brightness and current_profile attributes, and a keyboard that      *)
(* carries out the control transfers it is sent and whose own keys change  *)
(* its brightness or profile and send the report of the change.            *)
(***************************************************************************)
\* Reports the keyboard may have sent and k90_event not yet handled.
MaxReports == 2

\* The usages of the keys that change the keyboard's profile or brightness.
KbdKeys ==
    {K90_USAGE_M1, K90_USAGE_M2, K90_USAGE_M3, K90_USAGE_LIGHT_OFF,
     K90_USAGE_LIGHT_DIM, K90_USAGE_LIGHT_MEDIUM, K90_USAGE_LIGHT_BRIGHT}

\* The keyboard carries out the control transfer a store function has
\* submitted (K90_REQUEST_BRIGHTNESS / K90_REQUEST_PROFILE with the value).
kbd_control ==
    /\ pending.attr \in {"brightness", "current_profile"}
    /\ ~kbd.applied
    /\ kbd' = IF pending.attr = "brightness"
              THEN [kbd EXCEPT !.brightness = pending.value, !.applied = TRUE]
              ELSE [kbd EXCEPT !.profile = pending.value, !.applied = TRUE]
    /\ result' = NoResult
    /\ xfer' = NoXfer
    /\ UNCHANGED <<bInterfaceNumber, gkey_codes, usage, pc, slot, heap, drv,
                   attrs, ret, data, pending>>

\* A key of the keyboard changes its profile or brightness; the keyboard
\* sends the report k90_event has a case for.
kbd_key(u) ==
    /\ Len(kbd.reports) < MaxReports
    /\ kbd' = IF u >= K90_USAGE_LIGHT
              THEN [kbd EXCEPT !.brightness = u - K90_USAGE_LIGHT,
                               !.reports = Append(@, u)]
              ELSE [kbd EXCEPT !.profile = u - K90_USAGE_PROFILE + 1,
                               !.reports = Append(@, u)]
    /\ result' = NoResult
    /\ xfer' = NoXfer
    /\ UNCHANGED <<bInterfaceNumber, gkey_codes, usage, pc, slot, heap, drv,
                   attrs, ret, data, pending>>

\* usb_control_msg returns to the store function: 0 when the keyboard has
\* carried the transfer out, an error when it has not.
kbd_store_done(r) ==
    /\ (r = 0) <=> kbd.applied
    /\ \/ k90_store_brightness_done(r)
       \/ k90_store_current_profile_done(r)
    /\ kbd' = [kbd EXCEPT !.applied = FALSE]

\* k90_event is called with the oldest report the keyboard has sent.
kbd_event ==
    /\ kbd.reports # <<>>
    /\ k90_event(7 * HID_USAGE_MODULUS + Head(kbd.reports))
    /\ kbd' = [kbd EXCEPT !.reports = Tail(@)]

\* Interface 0 attached, its Device State seeded with what the keyboard is
\* set to.
InitDevice ==
    /\ \E b \in 0..3, p \in 1..3 :
          /\ kbd = Kbd(b, p)
          /\ drv = [ZeroState EXCEPT !.brightness = b, !.current_profile = p]
    /\ gkey_codes = k90_gkey_map
    /\ usage = Unmapped(0)
    /\ bInterfaceNumber = 0
    /\ pc = "bound"
    /\ slot = "PTR"
    /\ heap = "live"
    /\ attrs = TRUE
    /\ ret = 0
    /\ data = ZeroData
    /\ pending = NoPending
    /\ result = NoResult
    /\ xfer = NoXfer

NextDevice ==
    \/ \E buf \in NumberTexts : k90_store_brightness(buf)
    \/ \E buf \in NumberTexts : k90_store_current_profile(buf)
    \/ kbd_control
    \/ \E r \in XferRets : kbd_store_done(r)
    \/ \E u \in KbdKeys : kbd_key(u)
    \/ kbd_event

SpecDevice == InitDevice /\ [][NextDevice]_vars

(***************************************************************************)
(* Properties.                                                             *)
(***************************************************************************)
\* The interface is attached: k90_probe returned 0 and k90_remove has not
\* begun.
Attached == pc = "bound"

\* The spellings of the integer n that are decimal integers: an optional
\* sign, at most one leading zero, the digits, an optional newline.
Spellings(n) ==
    {sign \o zero \o FormatNat(IF n < 0 THEN 0 - n ELSE n) \o nl :
        sign \in (IF n < 0 THEN {<<"-">>}
                  ELSE IF n = 0 THEN {<<>>, <<"+">>, <<"-">>}
                  ELSE {<<>>, <<"+">>}),
        zero \in {<<>>, <<"0">>},
        nl \in {<<>>, NL}}

\* The texts that are a decimal integer in [0,3], and in [1,3].
BrightnessTexts == UNION {Spellings(n) : n \in 0..3}
ProfileTexts == UNION {Spellings(n) : n \in 1..3}

\* A step of a store function either returns from op or leaves its write
\* waiting for the transfer; SubmitStep and ReturnStep follow from the
\* actions they are conjoined with and come first to dismiss other steps
\* without enumerating inputs.
SubmitStep(op) == result'.op = op \/ pending' # pending
ReturnStep(op) == result'.op = op

\* The write was refused as invalid: -EINVAL, nothing sent, nothing changed.
RefusedInvalid(op) ==
    /\ result' = Returned(op, 0 - EINVAL, <<>>)
    /\ xfer' = NoXfer
    /\ UNCHANGED <<drv, heap, slot, pending>>

\* C1: in every state of an attached primary interface the cached
\* brightness is one of 0, 1, 2, 3 (whatever the status reply held at
\* attach, after any brightness write and after any inbound report).
C1_BrightnessInRange ==
    (Attached /\ HasState) => drv.brightness \in {0, 1, 2, 3}

\* C2: in every state of an attached primary interface the cached
\* current_profile is one of 1, 2, 3.
C2_ProfileInRange ==
    (Attached /\ HasState) => drv.current_profile \in {1, 2, 3}

\* C3: when the control transfer of an attribute write (brightness,
\* current_profile, macro_mode, macro_record) fails, the write returns the
\* transfer's error code and no field of any Device State changes.
C3_FailedWriteKeepsState ==
    [][\A r \in XferErrors :
          (\/ k90_store_brightness_done(r)
           \/ k90_store_current_profile_done(r)
           \/ k90_store_macro_mode_done(r)
           \/ k90_store_macro_record_done(r))
          => /\ result'.status = "returned"
             /\ result'.ret = r
             /\ xfer' = NoXfer
             /\ UNCHANGED <<drv, heap, slot>>]_vars

C3_Witness ==
    /\ HasState
    /\ result.op = "store_current_profile"
    /\ result.status = "returned"
    /\ result.ret = 0 - ETIMEDOUT

\* C4: a brightness write whose text is not a decimal integer in [0,3], and
\* a current_profile write whose text is not a decimal integer in [1,3],
\* returns -EINVAL, submits no control transfer and changes no Device State.
C4_InvalidNumberRefused ==
    [][   /\ SubmitStep("store_brightness") =>
                \A buf \in NumberTexts \ BrightnessTexts :
                    k90_store_brightness(buf)
                    => RefusedInvalid("store_brightness")
          /\ SubmitStep("store_current_profile") =>
                \A buf \in NumberTexts \ ProfileTexts :
                    k90_store_current_profile(buf)
                    => RefusedInvalid("store_current_profile")]_vars

C4_Witness ==
    /\ HasState
    /\ result = Returned("store_brightness", 0 - EINVAL, <<>>)
    /\ xfer = NoXfer

\* C5 as stated: a macro_mode write is accepted only for the input "SW" or
\* "HW", a macro_record write only for "ON" or "OFF"; every other input
\* returns -EINVAL, submits no control transfer and changes no Device State.
C5_ExactTokensOnly ==
    [][   /\ SubmitStep("store_macro_mode") =>
                \A buf \in TokenTexts \ {<<"S", "W">>, <<"H", "W">>} :
                    k90_store_macro_mode(buf)
                    => RefusedInvalid("store_macro_mode")
          /\ SubmitStep("store_macro_record") =>
                \A buf \in TokenTexts \ {<<"O", "N">>, <<"O", "F", "F">>} :
                    k90_store_macro_record(buf)
                    => RefusedInvalid("store_macro_record")]_vars

\* The inputs of the model that begin with one of the two tokens.
BeginsWith(toks) ==
    {buf \in TokenTexts :
        \E t \in toks : Len(buf) >= Len(t) /\ \A k \in 1..Len(t) : buf[k] = t[k]}

ModeTexts == BeginsWith({<<"S", "W">>, <<"H", "W">>})
RecordTexts == BeginsWith({<<"O", "N">>, <<"O", "F", "F">>})

\* C5, amended: a macro_mode write is accepted only when its input begins
\* with "SW" or "HW", a macro_record write only when its input begins with
\* "ON" or "OFF"; every other input returns -EINVAL, submits no control
\* transfer and changes no Device State.
C5_TokenPrefixOnly ==
    [][   /\ SubmitStep("store_macro_mode") =>
                \A buf \in TokenTexts \ ModeTexts :
                    k90_store_macro_mode(buf)
                    => RefusedInvalid("store_macro_mode")
          /\ SubmitStep("store_macro_record") =>
                \A buf \in TokenTexts \ RecordTexts :
                    k90_store_macro_record(buf)
                    => RefusedInvalid("store_macro_record")]_vars

C5_Witness ==
    /\ HasState
    /\ result = Returned("store_macro_mode", 0 - EINVAL, <<>>)
    /\ xfer = NoXfer

\* The request a valid write of attribute a with value v sends, the cached
\* field it sets on success and the text a read then returns.
C6_Cases ==
    UNION {
      {[op |-> "store_brightness", show |-> "show_brightness",
        attr |-> "brightness", texts |-> Spellings(v) \cap NumberTexts,
        request |-> 49, value |-> v, cached |-> v,
        shown |-> <<DigitChars[v + 1], "\n">>] : v \in 0..3},
      {[op |-> "store_current_profile", show |-> "show_current_profile",
        attr |-> "current_profile", texts |-> Spellings(v) \cap NumberTexts,
        request |-> 20, value |-> v, cached |-> v,
        shown |-> <<DigitChars[v + 1], "\n">>] : v \in 1..3},
      {[op |-> "store_macro_mode", show |-> "show_macro_mode",
        attr |-> "macro_mode", texts |-> {<<"S", "W">>, <<"S", "W", "\n">>},
        request |-> 2, value |-> 48, cached |-> 0,
        shown |-> <<"S", "W", "\n">>],
       [op |-> "store_macro_mode", show |-> "show_macro_mode",
        attr |-> "macro_mode", texts |-> {<<"H", "W">>, <<"H", "W", "\n">>},
        request |-> 2, value |-> 1, cached |-> 1,
        shown |-> <<"H", "W", "\n">>],
       [op |-> "store_macro_record", show |-> "show_macro_record",
        attr |-> "macro_record", texts |-> {<<"O", "N">>, <<"O", "N", "\n">>},
        request |-> 2, value |-> 32, cached |-> 1,
        shown |-> <<"O", "N", "\n">>],
       [op |-> "store_macro_record", show |-> "show_macro_record",
        attr |-> "macro_record",
        texts |-> {<<"O", "F", "F">>, <<"O", "F", "F", "\n">>},
        request |-> 2, value |-> 64, cached |-> 0,
        shown |-> <<"O", "F", "F", "\n">>]}}

\* The step is the call of attribute a's store function with buf.
C6_Store(a, buf) ==
    CASE a = "brightness" -> k90_store_brightness(buf)
      [] a = "current_profile" -> k90_store_current_profile(buf)
      [] a = "macro_mode" -> k90_store_macro_mode(buf)
      [] a = "macro_record" -> k90_store_macro_record(buf)

\* The step is the successful completion of attribute a's write.
C6_Done(a) ==
    CASE a = "brightness" -> k90_store_brightness_done(0)
      [] a = "current_profile" -> k90_store_current_profile_done(0)
      [] a = "macro_mode" -> k90_store_macro_mode_done(0)
      [] a = "macro_record" -> k90_store_macro_record_done(0)

\* The step is a read of attribute a.
C6_Show(a) ==
    CASE a = "brightness" -> k90_show_brightness
      [] a = "current_profile" -> k90_show_current_profile
      [] a = "macro_mode" -> k90_show_macro_mode
      [] a = "macro_record" -> k90_show_macro_record

\* C6: on an interface with Device State, a write of a valid value v sends
\* the attribute's request (49 / 2 / 2 / 20) with v's parameter; when the
\* transfer succeeds the write returns the length of its input and the
\* cached field is exactly v; and a read of a field holding v returns v's
\* text followed by a newline, so a read right after the write returns v.
C6_WriteThenRead ==
    [][HasState =>
        \A c \in C6_Cases :
          /\ SubmitStep(c.op) =>
                \A buf \in c.texts :
                    C6_Store(c.attr, buf)
                    => /\ xfer' = [dir |-> "out", request |-> c.request,
                                   value |-> c.value, len |-> 0]
                       /\ pending' = [attr |-> c.attr, value |-> c.value,
                                         count |-> Len(buf)]
                       /\ drv' = drv
          /\ (ReturnStep(c.op)
              /\ pending.attr = c.attr /\ pending.value = c.value
              /\ C6_Done(c.attr))
             => /\ result' = Returned(c.op, pending.count, <<>>)
                /\ drv' = [drv EXCEPT ![c.attr] = c.cached]
                /\ xfer' = NoXfer
          /\ (ReturnStep(c.show)
              /\ drv[c.attr] = c.cached /\ C6_Show(c.attr))
             => /\ result' = Returned(c.show, Len(c.shown), c.shown)
                /\ drv' = drv
                /\ xfer' = NoXfer]_vars

C6_Witness ==
    /\ HasState
    /\ result = Returned("store_macro_mode", 3, <<>>)
    /\ drv.macro_mode = 1

\* C7: when the status query of the primary interface's attach succeeds,
\* the new Device State has brightness = byte 4 and current_profile = byte 7
\* of the reply, and its other fields are as allocated whatever the reply's
\* other bytes are.
C7_SeededFromReply ==
    (pc = "seeded" /\ ret >= 0)
        => /\ heap = "live"
           /\ drv = [brightness |-> data[5],
                        current_profile |-> data[8],
                        macro_mode |-> 0, macro_record |-> 0,
                        meta_locked |-> 0]

C7_Witness ==
    /\ pc = "seeded"
    /\ ret = 8
    /\ data = <<0, 0, 0, 85, 2, 0, 0, 1>>
    /\ drv.brightness = 2
    /\ drv.current_profile = 1

\* C8: a status query that fails does not fail the attach of the primary
\* interface: the new Device State gets brightness 0 and current_profile 1,
\* it is published, and once the attribute group is registered the attach
\* returns 0 and the interface has its Device State.
C8_QueryFailureNotFatal ==
    /\ []((pc \in {"seeded", "published"} /\ ret < 0)
            => heap = "live")
    /\ []((pc = "seeded" /\ ret < 0)
            => drv = [brightness |-> 0, current_profile |-> 1,
                         macro_mode |-> 0, macro_record |-> 0,
                         meta_locked |-> 0])
    /\ [][(ret < 0 /\ init_sysfs(0))
            => /\ result' = Returned("probe", 0, <<>>)
               /\ Attached'
               /\ HasState']_vars

C8_Witness ==
    /\ pc = "published"
    /\ ret = 0 - ETIMEDOUT
    /\ HasState
    /\ drv.brightness = 0
    /\ drv.current_profile = 1

\* The Device State after a report of usage id u, as the claim lists it.
C9_After(st, u) ==
    IF u = 246 THEN [st EXCEPT !.macro_record = 1]
    ELSE IF u = 247 THEN [st EXCEPT !.macro_record = 0]
    ELSE IF u \in {241, 242, 243} THEN [st EXCEPT !.current_profile = u - 240]
    ELSE IF u \in {250, 251, 252, 253} THEN [st EXCEPT !.brightness = u - 250]
    ELSE IF u \in {244, 245} THEN [st EXCEPT !.meta_locked = 0]
    ELSE st

\* C9: a report handled on an interface with Device State makes exactly the
\* transition of its usage (0xF6/0xF7 macro_record on/off, 0xF1..0xF3
\* current_profile 1..3, 0xFA..0xFD brightness 0..3) and submits no control
\* transfer.
C9_ReportTransition ==
    [][\A hid \in Hids :
          (ReturnStep("event") /\ HasState /\ k90_event(hid))
          => /\ drv' = C9_After(drv, hid % 65536)
             /\ xfer' = NoXfer
             /\ pending' = pending]_vars

C9_Witness ==
    /\ HasState
    /\ result.op = "event"
    /\ drv.macro_record = 1
    /\ drv.current_profile = 3
    /\ drv.brightness = 2

C13_GkeyClassifier ==
    LET code == usage.hid % 65536
        want == IF code \in 208..223 THEN code - 208 + 1
                ELSE IF code \in 232..233 THEN code - 232 + 17
                ELSE 0
    IN  /\ k90_usage_to_gkey(code) = want
        /\ k90_usage_to_gkey(code) \in 0..18
        /\ result.op = "input_mapping"
           => ((usage.type = EV_KEY) <=> (want # 0))

C13_Witness ==
    /\ usage.hid = 12 * 65536 + 233
    /\ result = Returned("input_mapping", 1, <<>>)
    /\ usage.type = EV_KEY
    /\ k90_usage_to_gkey(233) = 18

\* C14: input mapping handles a usage in exactly one of three ways: a G-key
\* usage with index i is registered as a key event with the code at table
\* position i - 1 (within 0..17) and reported as mapped; any other usage in
\* [0xF0,0xFF] is suppressed; every remaining usage is left to the generic
\* mapping and nothing is registered for it.  (A step that maps a usage
\* leaves that usage in usage'.)
C14_InputMapping ==
    [][(ReturnStep("input_mapping") /\ k90_input_mapping(usage'.hid)) =>
         LET hid == usage'.hid
             code == hid % 65536
             i == IF code \in 208..223 THEN code - 207
                  ELSE IF code \in 232..233 THEN code - 215
                  ELSE 0
         IN  IF i # 0
             THEN /\ (i - 1) \in 0..17
                  /\ usage' = [hid |-> hid, type |-> 1,
                               code |-> gkey_codes[(i - 1) + 1]]
                  /\ result'.ret = 1
             ELSE IF code \in 240..255
             THEN result'.ret = 0 - 1 /\ usage'.type = 0
             ELSE result'.ret = 0 /\ usage'.type = 0]_vars

C14_Witness ==
    /\ usage = [hid |-> 7 * 65536 + 208, type |-> 1, code |-> 30]
    /\ gkey_codes[1] = 30
    /\ result = Returned("input_mapping", 1, <<>>)

\* C12: while an attribute write is between the start of its control
\* transfer and its store to the Device State, no attribute read and no
\* report handler that stores to the Device State runs on that state.
C12_MutuallyExclusive ==
    [][(pending.attr # "none" /\ HasState) =>
          /\ ~Reads
          /\ \A hid \in Hids :
                EventStores(hid % 65536) => ~k90_event(hid)]_vars

\* The fields of struct k90_drvdata, and those a step changes.
C15_Fields ==
    {"brightness", "current_profile", "macro_mode", "macro_record",
     "meta_locked"}
C15_Changed == {f \in C15_Fields : drv'[f] # drv[f]}

\* The field the report of usage id u is defined for.
C15_FieldOf(u) ==
    IF u \in {246, 247} THEN {"macro_record"}
    ELSE IF u \in {241, 242, 243} THEN {"current_profile"}
    ELSE IF u \in {244, 245} THEN {"meta_locked"}
    ELSE IF u \in {250, 251, 252, 253} THEN {"brightness"}
    ELSE {}

\* C15: on a Device State, macro_mode changes only in the successful
\* completion of a macro_mode write; a report changes at most the field of
\* its usage, and none for a usage outside 0xF1-0xF7 and 0xFA-0xFD; the
\* completion of a write changes at most the field of its attribute.
C15_FrameEffect ==
    [][(HasState /\ HasState') =>
          /\ ("macro_mode" \in C15_Changed)
                => (pending.attr = "macro_mode"
                    /\ result' = Returned("store_macro_mode",
                                          pending.count, <<>>))
          /\ ReturnStep("event") =>
                \A hid \in Hids :
                    k90_event(hid)
                    => C15_Changed \subseteq C15_FieldOf(hid % 65536)
          /\ pending' # pending => C15_Changed \subseteq {pending.attr}]_vars

C15_Witness ==
    /\ HasState
    /\ drv.macro_mode = 1
    /\ drv.macro_record = 1
    /\ result = Returned("event", 0, <<>>)

\* C16: a report of 0xF4 or of 0xF5 sets meta_locked to 0, and meta_locked
\* is 0 in every state of every Device State.
C16_MetaLockedFalse ==
    /\ [](heap = "live" => drv.meta_locked = 0)
    /\ [][ReturnStep("event") =>
            \A hid \in Hids :
                (hid % 65536 \in {244, 245} /\ HasState /\ k90_event(hid))
                => drv'.meta_locked = 0]_vars

C16_Witness ==
    /\ HasState
    /\ Attached
    /\ result = Returned("event", 0, <<>>)
    /\ drv.meta_locked = 0
    /\ drv.brightness = 3
    /\ drv.macro_record = 1

\* C17: an attached interface has a Device State exactly when it is
\* interface 0; another interface attaches with a NULL slot and without a
\* status query, never has an allocation, and reports on it change nothing.
C17_StateIffPrimary ==
    /\ [](Attached => (HasState <=> bInterfaceNumber = 0))
    /\ [](bInterfaceNumber # 0
            => (slot = "NULL" /\ heap = "none" /\ xfer = NoXfer))
    /\ [][bInterfaceNumber # 0 =>
            /\ \A ok \in BOOLEAN :
                  init_alloc(ok) => /\ result' = Returned("probe", 0, <<>>)
                                    /\ Attached'
            /\ ReturnStep("event") => UNCHANGED <<drv, heap, slot>>]_vars

C17_Witness ==
    /\ bInterfaceNumber = 1
    /\ Attached
    /\ slot = "NULL"
    /\ result = Returned("event", 0, <<>>)

\* C18: no report handler and no attribute operation stores to or loads
\* from a k90_drvdata that has been freed.
C18_NoUseAfterRelease ==
    [][(slot = "PTR" /\ heap # "live") =>
          /\ ~Reads
          /\ pending' = pending
          /\ \A hid \in Hids :
                EventStores(hid % 65536) => ~k90_event(hid)]_vars

\* The three fields the status query does not seed are as allocated and
\* read back as "SW" and "OFF".
C19_Defaults(st) ==
    /\ st.macro_mode = 0
    /\ st.macro_record = 0
    /\ st.meta_locked = 0
    /\ ShowMacroMode(st.macro_mode) = <<"S", "W", "\n">>
    /\ ShowMacroRecord(st.macro_record) = <<"O", "F", "F", "\n">>

C11_CacheMirrorsDevice ==
    (pending = NoPending /\ kbd.reports = <<>>)
    => (drv.brightness = kbd.brightness /\ drv.current_profile = kbd.profile)

============================================================================
